---- MODULE Spec2Model ----
(***************************************************************************)
(* A model of the timetable queries of src/app.py: the current/next class  *)
(* lookups, the free/busy room lists, the minutes-until-next computation,  *)
(* the per-faculty workload aggregation and the room conflict detection,   *)
(* together with the page scripts that call them while the wall clock      *)
(* runs.                                                                   *)
(*                                                                         *)
(* A DataFrame is the sequence of its index labels (positions of df); a    *)
(* filter keeps labels and their order, as pandas boolean indexing does.   *)
(* Times of day of the table are minutes after midnight (the "%H:%M"       *)
(* parse of load_timetable); a clock reading carries seconds.  Faculty,    *)
(* course and room names are numbered in their lexicographic order; room 0 *)
(* is the absent room (NaN).                                               *)
(***************************************************************************)
EXTENDS Integers, Sequences, FiniteSets

VARIABLES df, clock, ticks, page, pc,
          current_classes, current, free_rooms, busy_rooms,
          next_classes, minutes_until, workload, conflicts

vars == <<df, clock, ticks, page, pc, current_classes, current, free_rooms,
          busy_rooms, next_classes, minutes_until, workload, conflicts>>

results == <<current_classes, current, free_rooms, busy_rooms,
             next_classes, minutes_until, workload, conflicts>>

-----------------------------------------------------------------------------
(* Bounds of the model.                                                    *)

\* Longest table.
MaxRows == 2

\* Most advances of the wall clock observed during one page run.
MaxTicks == 1

-----------------------------------------------------------------------------
(* Values.                                                                 *)

days_order ==
    <<"Monday", "Tuesday", "Wednesday", "Thursday", "Friday", "Saturday", "Sunday">>

\* time(h, m) as parsed from "HH:MM": minutes after midnight.
TimeOfDay(h, m) == h * 60 + m

\* The absent room (NaN after read_csv).
NaN == 0

\* The value of a result variable before its query ran.
NotRun == [run |-> FALSE]

Min(S) == CHOOSE x \in S : \A y \in S : x <= y

Max(a, b) == IF a >= b THEN a ELSE b

RECURSIVE SumSeq(_)
SumSeq(s) == IF s = <<>> THEN 0 ELSE Head(s) + SumSeq(Tail(s))

\* seq[:n]
Take(s, n) == SubSeq(s, 1, IF n < Len(s) THEN n ELSE Len(s))

\* sorted(S) for a set of numbers.
RECURSIVE sorted(_)
sorted(S) == IF S = {} THEN <<>> ELSE <<Min(S)>> \o sorted(S \ {Min(S)})

Range(s) == {s[i] : i \in DOMAIN s}

\* The index of df: the labels 1..n in table order.
Index(d) == [i \in 1..Len(d) |-> i]

-----------------------------------------------------------------------------
(* The queries.                                                            *)

\* df["start_time"] <= current_time, a time(h, m) against now.time().
TimeLe(t, secs) == t * 60 <= secs

TimeGe(t, secs) == t * 60 >= secs

TimeGt(t, secs) == t * 60 > secs

get_current_classes_strict_end(d, now) ==
    SelectSeq(Index(d), LAMBDA i : /\ d[i].day = now.day
                                   /\ TimeLe(d[i].start_time, now.secs)
                                   /\ TimeGt(d[i].end_time, now.secs))

get_current_classes(d, now) ==
    SelectSeq(Index(d), LAMBDA i : /\ d[i].day = now.day
                                   /\ TimeLe(d[i].start_time, now.secs)
                                   /\ TimeGe(d[i].end_time, now.secs))

\* days_order.index(current_day) if current_day in days_order else 0
DayIndex(day) ==
    IF \E k \in 1..7 : days_order[k] = day
    THEN (CHOOSE k \in 1..7 : days_order[k] = day) - 1
    ELSE 0

tomorrow_no_wrap(day) ==
    IF DayIndex(day) + 2 <= 7 THEN days_order[DayIndex(day) + 2] ELSE "None"

tomorrow(day) == days_order[((DayIndex(day) + 1) % 7) + 1]

get_next_classes(d, now, limit) ==
    LET today_classes == SelectSeq(Index(d), LAMBDA i : d[i].day = now.day)
        upcoming == SelectSeq(today_classes,
                              LAMBDA i : TimeGt(d[i].start_time, now.secs))
        fallback == SelectSeq(Index(d), LAMBDA i : d[i].day = tomorrow(now.day))
    IN  Take(IF Len(upcoming) = 0 THEN fallback ELSE upcoming, limit)

\* sorted(df["room"].dropna().astype(str).unique())
all_rooms(d) == sorted({d[i].room : i \in 1..Len(d)} \ {NaN})

occupied(d, now) ==
    {d[i].room : i \in Range(get_current_classes(d, now))} \ {NaN}

get_free_rooms_all(d, now) == all_rooms(d)

get_free_rooms(d, now) ==
    SelectSeq(all_rooms(d), LAMBDA r : r \notin occupied(d, now))

get_busy_rooms(d, now) == sorted(occupied(d, now))

\* now: the reading of line 135; later: the reading of line 144.
\* None is <<>>, a number n is <<n>>.
calculate_time_until_next_class(d, now, later) ==
    LET today_classes == SelectSeq(Index(d), LAMBDA i : d[i].day = now.day)
        future_classes == SelectSeq(today_classes,
                                    LAMBDA i : TimeGt(d[i].start_time, now.secs))
    IN  IF Len(future_classes) > 0
        THEN LET next_start == d[future_classes[1]].start_time
                 delta == next_start * 60 - later.secs
             IN  <<Max(0, delta \div 60)>>
        ELSE <<>>

\* int(x / 60) of line 162: the quotient truncated towards zero.
IntDiv(x, n) == IF x >= 0 THEN x \div n ELSE -((-x) \div n)

\* The difference read through timedelta.seconds, which is never negative.
duration_minutes_seconds_field(row) ==
    IntDiv(((row.end_time * 60) - (row.start_time * 60)) % 86400, 60)

\* Line 162, in minutes: both times on the date datetime.min.
duration_minutes(row) ==
    IntDiv((row.end_time * 60) - (row.start_time * 60), 60)

\* n / m rounded to the nearest integer, a tie to the even one (numpy's rint).
RoundHalfEven(n, m) ==
    LET q == n \div m
        r == n % m
    IN  IF 2 * r < m THEN q
        ELSE IF 2 * r > m THEN q + 1
        ELSE IF q % 2 = 0 THEN q ELSE q + 1

\* (total_minutes / 60).round(1), in tenths of an hour: 15 is 1.5 hours.
total_hours(total_minutes) == RoundHalfEven(total_minutes, 6)

\* Lines 167 to 172: one group per faculty, in ascending key order.
groupby_faculty(d) ==
    LET keys == sorted({d[i].faculty : i \in 1..Len(d)})
        rowsOf(f) == SelectSeq(Index(d), LAMBDA i : d[i].faculty = f)
        minutesOf(f) ==
            SumSeq([k \in 1..Len(rowsOf(f)) |-> duration_minutes(d[rowsOf(f)[k]])])
    IN  [k \in 1..Len(keys) |->
            [faculty |-> keys[k],
             num_classes |-> Len(rowsOf(keys[k])),
             total_minutes |-> minutesOf(keys[k]),
             total_hours |-> total_hours(minutesOf(keys[k]))]]

Arrangements(s) ==
    {[k \in 1..Len(s) |-> s[f[k]]] :
        f \in {g \in [1..Len(s) -> 1..Len(s)] :
                  \A a, b \in 1..Len(s) : a # b => g[a] # g[b]}}

sort_values_ascending(w) ==
    {p \in Arrangements(w) :
        \A a, b \in 1..Len(p) : a < b => p[a].total_hours <= p[b].total_hours}

\* Line 173: sort_values("total_hours", ascending=False) with the default kind,
\* quicksort, which keeps no order among equal keys: every descending
\* arrangement of the groups is an outcome.
sort_values(w) ==
    {p \in Arrangements(w) :
        \A a, b \in 1..Len(p) : a < b => p[a].total_hours >= p[b].total_hours}

\* Lines 158 to 174: the frames get_faculty_workload may return.
get_faculty_workload(d) == sort_values(groupby_faculty(d))

\* str(time): hours and minutes of the "HH:MM:SS" text.
FormatTime(t) == <<t \div 60, t % 60>>

\* Lines 194 to 202.
ConflictRecord(row, overlap_row) ==
    [Room |-> row.room,
     Course1 |-> row.course,
     Time1 |-> <<FormatTime(row.start_time), FormatTime(row.end_time)>>,
     Faculty1 |-> row.faculty,
     Course2 |-> overlap_row.course,
     Time2 |-> <<FormatTime(overlap_row.start_time), FormatTime(overlap_row.end_time)>>,
     Faculty2 |-> overlap_row.faculty]

\* today["room"] == row["room"]: NaN equals nothing, itself included.
RoomEq(a, b) == a # NaN /\ b # NaN /\ a = b

overlapping_touching(d, today, idx) ==
    SelectSeq(today, LAMBDA j : /\ RoomEq(d[j].room, d[idx].room)
                                /\ j # idx
                                /\ d[j].start_time <= d[idx].end_time
                                /\ d[j].end_time >= d[idx].start_time)

\* Lines 185 to 190.
overlapping(d, today, idx) ==
    SelectSeq(today, LAMBDA j : /\ RoomEq(d[j].room, d[idx].room)
                                /\ j # idx
                                /\ d[j].start_time < d[idx].end_time
                                /\ d[j].end_time > d[idx].start_time)

\* Lines 203 and 204.
AppendNew(acc, c) == IF c \in Range(acc) THEN acc ELSE Append(acc, c)

\* Lines 193 to 204 for one row.
RECURSIVE AddConflicts(_, _, _, _)
AddConflicts(d, idx, over, acc) ==
    IF over = <<>> THEN acc
    ELSE AddConflicts(d, idx, Tail(over),
                      AppendNew(acc, ConflictRecord(d[idx], d[Head(over)])))

\* Lines 184 to 204.
RECURSIVE ConflictLoop(_, _, _, _)
ConflictLoop(d, today, rest, acc) ==
    IF rest = <<>> THEN acc
    ELSE ConflictLoop(d, today, Tail(rest),
                      AddConflicts(d, Head(rest), overlapping(d, today, Head(rest)), acc))

\* Lines 176 to 206; None is the empty sequence of records.
detect_scheduling_conflicts(d, now) ==
    LET today == SelectSeq(Index(d), LAMBDA i : d[i].day = now.day)
    IN  ConflictLoop(d, today, today, <<>>)

-----------------------------------------------------------------------------
(* Inputs.                                                                 *)

NineToTen == [start_time |-> TimeOfDay(9, 0), end_time |-> TimeOfDay(10, 0)]

HalfNineToHalfTen == [start_time |-> TimeOfDay(9, 30), end_time |-> TimeOfDay(10, 30)]

MkRow(f, c, dy, iv, r) ==
    [faculty |-> f, course |-> c, day |-> dy,
     start_time |-> iv.start_time, end_time |-> iv.end_time, room |-> r]

\* Rows of the tables given to the time queries.
TimeRows ==
    {MkRow(1, 1, dy, iv, r) : dy \in {"Monday", "Sunday"},
                              iv \in {NineToTen, HalfNineToHalfTen},
                              r \in {NaN, 1, 2}}

TenToEleven == [start_time |-> TimeOfDay(10, 0), end_time |-> TimeOfDay(11, 0)]

NineToHalfTen == [start_time |-> TimeOfDay(9, 0), end_time |-> TimeOfDay(10, 30)]

NineToQuarterPast == [start_time |-> TimeOfDay(9, 0), end_time |-> TimeOfDay(9, 15)]

\* end_time before start_time: loaded all the same.
TenToNine == [start_time |-> TimeOfDay(10, 0), end_time |-> TimeOfDay(9, 0)]

\* Rows of the tables given to the conflict detection.
ConflictRows ==
    {MkRow(w, w, dy, iv, r) : w \in {1, 2},
                              dy \in {"Monday", "Sunday"},
                              iv \in {NineToTen, HalfNineToHalfTen, TenToEleven},
                              r \in {NaN, 1, 2}}

\* Rows of the tables given to the workload aggregation.
WorkloadRows ==
    {MkRow(f, 1, "Monday", iv, 1) :
        f \in {1, 2},
        iv \in {NineToTen, NineToHalfTen, NineToQuarterPast, TenToNine}}

SeqsUpTo(S, n) == UNION {[1..k -> S] : k \in 0..n}

\* The readings the wall clock takes.
ClockSecs ==
    {TimeOfDay(8, 59) * 60 + 30, TimeOfDay(9, 0) * 60, TimeOfDay(10, 0) * 60,
     TimeOfDay(10, 1) * 60, TimeOfDay(10, 30) * 60}

Readings == [day : {"Sunday", "Monday"}, secs : ClockSecs]

\* The readings a clock at `now` may show later on the same day.
Later(now) == {r \in Readings : r.day = now.day /\ r.secs > now.secs}

\* The limits handed to get_next_classes: the smallest, and the 5 of line 307
\* (the default of line 102), which no table of the model reaches.
Limits == {1, 5}

Pages == {"Dashboard", "RoomStatus", "Conflicts", "Workload"}

TablesFor(p) ==
    IF p \in {"Dashboard", "RoomStatus"} THEN SeqsUpTo(TimeRows, MaxRows)
    ELSE IF p = "Conflicts" THEN SeqsUpTo(ConflictRows, MaxRows)
    ELSE SeqsUpTo(WorkloadRows, MaxRows)

\* The readings a page may start at: any reading of Monday and the last one
\* of Sunday, the day the week wraps after.  The queries of the last two
\* pages read at most the day of the clock, and start at the last reading of
\* either day.
StartReadings(p) ==
    IF p \in {"Dashboard", "RoomStatus"}
    THEN {r \in Readings : r.day = "Monday" \/ Later(r) = {}}
    ELSE {r \in Readings : Later(r) = {}}

-----------------------------------------------------------------------------
(* The program.                                                            *)

Init ==
    /\ page \in Pages
    /\ df \in TablesFor(page)
    /\ clock \in StartReadings(page)
    /\ ticks = 0
    /\ pc = 1
    /\ current_classes = NotRun
    /\ current = NotRun
    /\ free_rooms = NotRun
    /\ busy_rooms = NotRun
    /\ next_classes = NotRun
    /\ minutes_until = NotRun
    /\ workload = NotRun
    /\ conflicts = NotRun

Ran(now, v) == [run |-> TRUE, now |-> now, val |-> v]

\* The wall clock advances between two statements of a page.
Tick ==
    /\ ticks < MaxTicks
    /\ pc # 0
    /\ \E r \in Later(clock) : clock' = r
    /\ ticks' = ticks + 1
    /\ UNCHANGED <<df, page, pc, results>>

\* Dashboard, line 250.
DashboardOngoing ==
    /\ page = "Dashboard" /\ pc = 1
    /\ current_classes' = Ran(clock, get_current_classes(df, clock))
    /\ pc' = 2
    /\ UNCHANGED <<df, clock, ticks, page, current, free_rooms, busy_rooms,
                   next_classes, minutes_until, workload, conflicts>>

\* Dashboard, line 258.
DashboardFreeRooms ==
    /\ page = "Dashboard" /\ pc = 2
    /\ free_rooms' = Ran(clock, get_free_rooms(df, clock))
    /\ pc' = 3
    /\ UNCHANGED <<df, clock, ticks, page, current_classes, current, busy_rooms,
                   next_classes, minutes_until, workload, conflicts>>

\* Dashboard, line 274: the clock is read at line 135 and again at line 144.
DashboardMinutesUntil ==
    /\ page = "Dashboard" /\ pc = 3
    /\ \E later \in {clock} \cup (IF ticks < MaxTicks THEN Later(clock) ELSE {}) :
          /\ minutes_until' =
                 [run |-> TRUE, now |-> clock, later |-> later,
                  val |-> calculate_time_until_next_class(df, clock, later)]
          /\ clock' = later
          /\ ticks' = IF later = clock THEN ticks ELSE ticks + 1
    /\ pc' = 4
    /\ UNCHANGED <<df, page, current_classes, current, free_rooms, busy_rooms,
                   next_classes, workload, conflicts>>

\* Dashboard, line 293.
DashboardCurrent ==
    /\ page = "Dashboard" /\ pc = 4
    /\ current' = Ran(clock, get_current_classes(df, clock))
    /\ pc' = 5
    /\ UNCHANGED <<df, clock, ticks, page, current_classes, free_rooms, busy_rooms,
                   next_classes, minutes_until, workload, conflicts>>

\* Dashboard, line 307.
DashboardNextClasses ==
    /\ page = "Dashboard" /\ pc = 5
    /\ \E limit \in Limits :
          next_classes' = [run |-> TRUE, now |-> clock, limit |-> limit,
                           val |-> get_next_classes(df, clock, limit)]
    /\ pc' = 0
    /\ UNCHANGED <<df, clock, ticks, page, current_classes, current, free_rooms,
                   busy_rooms, minutes_until, workload, conflicts>>

\* Room Status, line 375.
RoomStatusFreeRooms ==
    /\ page = "RoomStatus" /\ pc = 1
    /\ free_rooms' = Ran(clock, get_free_rooms(df, clock))
    /\ pc' = 2
    /\ UNCHANGED <<df, clock, ticks, page, current_classes, current, busy_rooms,
                   next_classes, minutes_until, workload, conflicts>>

\* Room Status, line 385.
RoomStatusBusyRooms ==
    /\ page = "RoomStatus" /\ pc = 2
    /\ busy_rooms' = Ran(clock, get_busy_rooms(df, clock))
    /\ pc' = 3
    /\ UNCHANGED <<df, clock, ticks, page, current_classes, current, free_rooms,
                   next_classes, minutes_until, workload, conflicts>>

\* Room Status, line 386.
RoomStatusCurrent ==
    /\ page = "RoomStatus" /\ pc = 3
    /\ current' = Ran(clock, get_current_classes(df, clock))
    /\ pc' = 0
    /\ UNCHANGED <<df, clock, ticks, page, current_classes, free_rooms, busy_rooms,
                   next_classes, minutes_until, workload, conflicts>>

\* Conflicts, line 435.
ConflictsDetect ==
    /\ page = "Conflicts" /\ pc = 1
    /\ conflicts' = Ran(clock, detect_scheduling_conflicts(df, clock))
    /\ pc' = 0
    /\ UNCHANGED <<df, clock, ticks, page, current_classes, current, free_rooms,
                   busy_rooms, next_classes, minutes_until, workload>>

\* A call of get_faculty_workload on the table.
FacultyWorkload ==
    /\ page = "Workload" /\ pc = 1
    /\ \E w \in get_faculty_workload(df) : workload' = [run |-> TRUE, val |-> w]
    /\ pc' = 0
    /\ UNCHANGED <<df, clock, ticks, page, current_classes, current, free_rooms,
                   busy_rooms, next_classes, minutes_until, conflicts>>

Next ==
    \/ Tick
    \/ DashboardOngoing
    \/ DashboardFreeRooms
    \/ DashboardMinutesUntil
    \/ DashboardCurrent
    \/ DashboardNextClasses
    \/ RoomStatusFreeRooms
    \/ RoomStatusBusyRooms
    \/ RoomStatusCurrent
    \/ ConflictsDetect
    \/ FacultyWorkload

Spec == Init /\ [][Next]_vars

-----------------------------------------------------------------------------
(* Properties.                                                             *)

Rows == 1..Len(df)

\* Row i is ongoing at the reading now: the interval is closed at both ends.
OngoingAt(i, now) ==
    /\ df[i].day = now.day
    /\ df[i].start_time * 60 <= now.secs
    /\ now.secs <= df[i].end_time * 60

\* Row i starts strictly after the reading now, on the day of now.
UpcomingAt(i, now) == df[i].day = now.day /\ df[i].start_time * 60 > now.secs

IsSubSeqOfIndex(s) == \A a, b \in 1..Len(s) : a < b => s[a] < s[b]

CurrentIsExact(res) ==
    res.run =>
        /\ Range(res.val) = {i \in Rows : OngoingAt(i, res.now)}
        /\ IsSubSeqOfIndex(res.val)
        /\ \A i \in Rows :
              (df[i].start_time < df[i].end_time /\ df[i].day = res.now.day) =>
                  /\ res.now.secs = df[i].start_time * 60 => i \in Range(res.val)
                  /\ res.now.secs = df[i].end_time * 60 => i \in Range(res.val)
                  /\ res.now.secs = (df[i].end_time + 1) * 60 => i \notin Range(res.val)

\* C1: get_current_classes returns exactly the rows of the day of now with
\* start_time <= now.time <= end_time, in table order: a session with
\* start_time < end_time is returned at now = start_time and at now = end_time,
\* and is not returned at now = end_time + 1 minute.
C1_CurrentInclusiveBounds ==
    CurrentIsExact(current_classes) /\ CurrentIsExact(current)

\* C1 witness: one session is returned by the call that read the clock at its
\* end_time and is not returned by the call that read it one minute later.
C1_Witness ==
    /\ current_classes.run /\ current.run
    /\ \E i \in Rows :
          /\ df[i].start_time < df[i].end_time
          /\ df[i].day = current_classes.now.day
          /\ current_classes.now.secs = df[i].end_time * 60
          /\ current.now.secs = (df[i].end_time + 1) * 60
          /\ i \in Range(current_classes.val)
          /\ i \notin Range(current.val)

\* The records of the unordered pair {i, j} in a conflict list.
RecordsOfPair(val, i, j) ==
    {k \in 1..Len(val) : val[k] \in {ConflictRecord(df[i], df[j]),
                                     ConflictRecord(df[j], df[i])}}

\* C2: detect_scheduling_conflicts reports each unordered pair of conflicting
\* sessions at most once: no pair has one record as (a, b) and another as (b, a).
C2_PairReportedOnce ==
    conflicts.run =>
        \A i, j \in Rows :
            i < j => Cardinality(RecordsOfPair(conflicts.val, i, j)) <= 1

IsAscendingByStart(s) ==
    \A a, b \in 1..Len(s) : a < b => df[s[a]].start_time <= df[s[b]].start_time

\* C3: get_next_classes returns its result in ascending start_time order; when
\* a session of today starts after now, the result holds min(limit, number of
\* such sessions) of them and no omitted one starts before a returned one.
C3_NextSortedByStart ==
    next_classes.run =>
        /\ IsAscendingByStart(next_classes.val)
        /\ (\E i \in Rows : UpcomingAt(i, next_classes.now)) =>
              LET up == {i \in Rows : UpcomingAt(i, next_classes.now)}
                  got == Range(next_classes.val)
              IN  /\ got \subseteq up
                  /\ Len(next_classes.val) =
                        (IF Cardinality(up) < next_classes.limit
                         THEN Cardinality(up) ELSE next_classes.limit)
                  /\ \A i \in got, j \in up \ got :
                        df[i].start_time <= df[j].start_time

RoomsOfTable == {df[i].room : i \in Rows} \ {NaN}

\* C4: read at one now, the free rooms and the busy rooms are disjoint and
\* together hold every non-empty room of the table.
C4_FreeBusyPartition ==
    (free_rooms.run /\ busy_rooms.run /\ free_rooms.now = busy_rooms.now) =>
        /\ Range(free_rooms.val) \cap Range(busy_rooms.val) = {}
        /\ RoomsOfTable \subseteq Range(free_rooms.val) \cup Range(busy_rooms.val)

\* C4 witness: both lists were computed at one now, one room is busy and
\* another is free.
C4_Witness ==
    /\ free_rooms.run /\ busy_rooms.run /\ free_rooms.now = busy_rooms.now
    /\ Range(free_rooms.val) # {} /\ Range(busy_rooms.val) # {}
    /\ Cardinality(RoomsOfTable) = 2

\* C5: calculate_time_until_next_class returns None exactly when no session
\* of today starts after now, and otherwise the whole minutes, never negative,
\* from the clock to the earliest start_time of today after now.
C5_MinutesToEarliest ==
    minutes_until.run =>
        LET up == {i \in Rows : UpcomingAt(i, minutes_until.now)}
            earliest == Min({df[i].start_time : i \in up})
        IN  /\ (minutes_until.val = <<>>) <=> (up = {})
            /\ up # {} =>
                  /\ minutes_until.val[1] >= 0
                  /\ minutes_until.val[1] =
                        Max(0, (earliest * 60 - minutes_until.later.secs) \div 60)

\* Rows i and j are distinct rows of the day with one non-empty room whose
\* intervals strictly overlap.
Conflicting(i, j, day) ==
    /\ i # j
    /\ df[i].day = day /\ df[j].day = day
    /\ df[i].room # NaN /\ df[i].room = df[j].room
    /\ df[i].start_time < df[j].end_time
    /\ df[i].end_time > df[j].start_time

\* C6: the records of detect_scheduling_conflicts are exactly the records of
\* the pairs of distinct rows of the day that share a non-empty room and
\* strictly overlap: a touching pair, a pair in two rooms, a pair with a row
\* of another day or with an absent room has no record, and every strictly
\* overlapping pair has its record, also next to rows identical to it.
C6_ConflictsExact ==
    conflicts.run =>
        Range(conflicts.val) =
            {ConflictRecord(df[i], df[j]) :
                <<i, j>> \in {q \in Rows \X Rows : Conflicting(q[1], q[2], conflicts.now.day)}}

\* C6 witness: two rows identical in course, time, faculty and room conflict,
\* and their pair is reported.
C6_Witness ==
    /\ conflicts.run
    /\ Len(df) = 2
    /\ df[1] = df[2]
    /\ Conflicting(1, 2, conflicts.now.day)
    /\ conflicts.val = <<ConflictRecord(df[1], df[2])>>

\* The day after `day` in the week.
DayAfter(day) ==
    CASE day = "Monday" -> "Tuesday"
      [] day = "Tuesday" -> "Wednesday"
      [] day = "Wednesday" -> "Thursday"
      [] day = "Thursday" -> "Friday"
      [] day = "Friday" -> "Saturday"
      [] day = "Saturday" -> "Sunday"
      [] day = "Sunday" -> "Monday"

\* C7: when no session of today starts after now, get_next_classes returns
\* the first `limit` rows, in table order and whatever their times, of the
\* next day of the week, Monday following Sunday; it never returns more than
\* `limit` rows.
C7_NextDayFallback ==
    next_classes.run =>
        /\ Len(next_classes.val) <= next_classes.limit
        /\ (~ \E i \in Rows : UpcomingAt(i, next_classes.now)) =>
              next_classes.val =
                  Take(SelectSeq(Index(df),
                                 LAMBDA i : df[i].day = DayAfter(next_classes.now.day)),
                       next_classes.limit)

\* C7 witness: on Sunday with nothing left, the head of Monday's rows is
\* returned, cut to `limit`, with a row whose time of day is before now.
C7_Witness ==
    /\ next_classes.run
    /\ next_classes.now.day = "Sunday"
    /\ Len(df) = 2 /\ df[1].day = "Monday" /\ df[2].day = "Monday"
    /\ next_classes.limit = 1
    /\ next_classes.val = <<1>>
    /\ df[1].end_time * 60 < next_classes.now.secs

IsDescendingByHours(w) ==
    \A a, b \in 1..Len(w) : a < b => w[a].total_hours >= w[b].total_hours

FirstRowOf(f) == Min({i \in Rows : df[i].faculty = f})

\* C8: get_faculty_workload is sorted by total_hours descending, faculty with
\* equal total_hours in the order of their first rows in the table.
C8_TiesInFirstAppearanceOrder ==
    workload.run =>
        /\ IsDescendingByHours(workload.val)
        /\ \A a, b \in 1..Len(workload.val) :
              (a < b /\ workload.val[a].total_hours = workload.val[b].total_hours) =>
                  FirstRowOf(workload.val[a].faculty) < FirstRowOf(workload.val[b].faculty)

\* C8 amended: get_faculty_workload is sorted by total_hours descending; the
\* order of faculty with equal total_hours is not determined.
C8_SortedByHoursDescending ==
    workload.run => IsDescendingByHours(workload.val)

\* C8 witness: two faculty with different total_hours, the one with more
\* hours first although it comes second in the table.
C8_Witness ==
    /\ workload.run
    /\ Len(workload.val) = 2
    /\ workload.val[1].total_hours > workload.val[2].total_hours
    /\ FirstRowOf(workload.val[1].faculty) > FirstRowOf(workload.val[2].faculty)

Abs(x) == IF x < 0 THEN -x ELSE x

MinutesOfFaculty(f) ==
    SumSeq([k \in 1..Len(df) |->
               IF df[k].faculty = f THEN df[k].end_time - df[k].start_time ELSE 0])

\* C9: every faculty of the table has exactly one row in the workload, with
\* num_classes its number of rows, total_minutes the sum of end_time -
\* start_time over them, and total_hours the tenth of an hour nearest to
\* total_minutes / 60.
C9_WorkloadTotals ==
    workload.run =>
        /\ Len(workload.val) = Cardinality({df[i].faculty : i \in Rows})
        /\ \A f \in {df[i].faculty : i \in Rows} :
              \E k \in 1..Len(workload.val) :
                  /\ workload.val[k].faculty = f
                  /\ workload.val[k].num_classes =
                         Cardinality({i \in Rows : df[i].faculty = f})
                  /\ workload.val[k].total_minutes = MinutesOfFaculty(f)
                  /\ Abs(6 * workload.val[k].total_hours - MinutesOfFaculty(f)) <= 3

\* C9 witness: the single session 09:00-10:30 gives 90 minutes and 1.5 hours.
C9_Witness ==
    /\ workload.run
    /\ Len(df) = 1
    /\ df[1].start_time = TimeOfDay(9, 0) /\ df[1].end_time = TimeOfDay(10, 30)
    /\ Len(workload.val) = 1
    /\ workload.val[1].num_classes = 1
    /\ workload.val[1].total_minutes = 90
    /\ workload.val[1].total_hours = 15

\* C10: the queries of one page run observe one now, so they agree on the
\* ongoing sessions: the two current-session results of a page are equal, the
\* busy rooms are the rooms of the current sessions, and no room is both free
\* and busy or neither.
C10_OneNowPerCycle ==
    /\ (current_classes.run /\ current.run) => current_classes.val = current.val
    /\ (busy_rooms.run /\ current.run) =>
          Range(busy_rooms.val) = {df[i].room : i \in Range(current.val)} \ {NaN}
    /\ (free_rooms.run /\ busy_rooms.run) =>
          /\ Range(free_rooms.val) \cap Range(busy_rooms.val) = {}
          /\ RoomsOfTable \subseteq Range(free_rooms.val) \cup Range(busy_rooms.val)

====
